---- MODULE Spec2Model ----
(***************************************************************************)
(* Model of the mmio crate (src/src/lib.rs): MemoryMap<T>, a typed cell    *)
(* placed in a region obtained from mmap(2), with volatile read/write and  *)
(* munmap(2) on Drop.                                                      *)
(*                                                                         *)
(* Machine words are modelled at their real widths as the set of the       *)
(* positions of their 1 bits (bit 0 = least significant), so that the      *)
(* mask arithmetic of open_file_raw and drop, including its u32 literal,   *)
(* is computed exactly as the code computes it.                            *)
(***************************************************************************)
EXTENDS Integers, FiniteSets, Sequences, TLC

\* Width of the literal `!0u32` used by both mask computations.
U32Bits == 32

\* Bound: the values of T are 0..MaxVal.
MaxVal == 2

----------------------------------------------------------------------------
(* Machine words                                                           *)

Word(w) == 0 .. (w - 1)

NULL == {}

BitAnd(a, b) == a \cap b

BitXor(a, b) == (a \ b) \cup (b \ a)

\* `x as uN` / `x as iN` from an unsigned or non-negative source:
\* zero-extension or truncation to w bits.
CastU(a, w) == a \cap Word(w)

\* `x as uN` / `x as iN` from a signed source of width `from`:
\* sign-extension or truncation to w bits.
CastS(a, from, w) ==
  IF w > from /\ (from - 1) \in a THEN a \cup (from .. (w - 1)) ELSE a \cap Word(w)

RECURSIVE AddFrom(_, _, _, _, _)
AddFrom(a, b, k, carry, w) ==
  IF k = w THEN {}
  ELSE LET n == (IF k \in a THEN 1 ELSE 0) + (IF k \in b THEN 1 ELSE 0) + carry
       IN  (IF n % 2 = 1 THEN {k} ELSE {}) \cup AddFrom(a, b, k + 1, n \div 2, w)

\* a + b modulo 2^w
WrappingAdd(a, b, w) == AddFrom(a, b, 0, 0, w)

\* a - 1 modulo 2^w
Dec(a, w) == WrappingAdd(a, Word(w), w)

\* the word of a small natural number
FromInt(n) == { k \in 0 .. 30 : (n \div (2 ^ k)) % 2 = 1 }

\* the start of the page (of 2^shift bytes) that holds address or offset a
AlignDown(a, shift) == a \ Word(shift)

----------------------------------------------------------------------------
(* State                                                                   *)

VARIABLES
  env,          \* build target and OS parameters, fixed for a run of the process
  st,           \* "start" | "live" | "none" | "dropped" | "fault"
  self_ptr,     \* MemoryMap::ptr
  loc,          \* the place (binding) that currently holds the MemoryMap
  view,         \* [live, ptr]: the RawPtr handed out by as_ref
  maps,         \* OS: start addresses of the pages mapped for this library
  fds,          \* OS: descriptors opened by this library and still open
  calls,        \* OS: the system calls issued so far, in order
  ctor,         \* [name, offset]: the constructor call that was made
  cell,         \* the value of T held by the storage at self_ptr
  ret,          \* the value the latest read() returned, if no store followed it
  last_written, \* the value of the latest write(), if no other store followed it
  reads_since,  \* read()s that returned since that write() (capped at 2)
  rw            \* the read_and_write call in flight or just completed

vars == << env, st, self_ptr, loc, view, maps, fds, calls, ctor, cell, ret,
           last_written, reads_since, rw >>

Vals == 0 .. MaxVal

\* "no value": outside Vals
NoVal == MaxVal + 1

\* (off_t width, pointer width) of the targets libc supports
Targets == { [off |-> 32, ptr |-> 32], [off |-> 64, ptr |-> 64] }

\* log2 of the page sizes sysconf(_SC_PAGESIZE) reports
PageShifts == {12, 14}

\* size_of::<T>()
SizesT == {4, 8}

Envs == { [unix |-> u, off_bits |-> t.off, ptr_bits |-> t.ptr, page_shift |-> s, size |-> z] :
            u \in BOOLEAN, t \in Targets, s \in PageShifts, z \in SizesT }

\* callbacks handed to read_and_write
Callbacks == {"inc", "zero"}

Apply(cb, v) == IF cb = "inc" THEN (v + 1) % (MaxVal + 1) ELSE 0

\* Offsets a caller may pass: 0, 8, P-4, P+8 and, where off_t has 64 bits,
\* 2^32+P+8 (P the page size).
Offsets ==
  LET s == env.page_shift
  IN  { {}, {3}, 2 .. (s - 1), {s, 3} }
        \cup (IF env.off_bits = 64 THEN { {32, s, 3} } ELSE {})

\* Page-aligned addresses the OS may choose for a new mapping.
Bases ==
  { {31, 14} } \cup (IF env.ptr_bits = 64 THEN { {46, 33, 14} } ELSE {})

RW == {"PROT_READ", "PROT_WRITE"}

IdleRW == [pc |-> "idle", cb |-> "zero", tmp |-> NoVal, foreign |-> NoVal,
           reads |-> 0, writes |-> 0]

NoView == [live |-> FALSE, ptr |-> NULL]

----------------------------------------------------------------------------
(* The operating system                                                    *)

\* libc::MAP_FAILED, (void *) -1
MAP_FAILED == Word(env.ptr_bits)

\* the pages that hold a byte of [addr, addr + len), for 0 < len <= page size
PagesOf(addr, len) ==
  { AlignDown(WrappingAdd(addr, FromInt(k), env.ptr_bits), env.page_shift) :
      k \in {0, len - 1} }

\* what mmap(NULL, len, prot, flags, fd, off) may return
MmapReturns(fd, flags) ==
  {MAP_FAILED} \cup (IF fd = -1 /\ "MAP_ANON" \notin flags THEN {} ELSE Bases)

\* what open("/dev/mem", O_RDWR | O_SYNC) may return
OpenReturns == {-1, 3}

OsMapsAfter(m, c) ==
  CASE c.op = "mmap" /\ c.ret # MAP_FAILED -> m \cup PagesOf(c.ret, c.len)
    [] c.op = "munmap"                     -> m \ PagesOf(c.addr, c.len)
    [] OTHER                               -> m

OsFdsAfter(f, c) ==
  CASE c.op = "open" /\ c.ret # -1 -> f \cup {c.ret}
    [] c.op = "close"             -> f \ {c.fd}
    [] OTHER                      -> f

RECURSIVE OsMaps(_, _)
OsMaps(m, cs) == IF cs = << >> THEN m ELSE OsMaps(OsMapsAfter(m, Head(cs)), Tail(cs))

RECURSIVE OsFds(_, _)
OsFds(f, cs) == IF cs = << >> THEN f ELSE OsFds(OsFdsAfter(f, Head(cs)), Tail(cs))

----------------------------------------------------------------------------
(* Constructors                                                            *)

None == [some |-> FALSE, ptr |-> NULL]

Some(p) == [some |-> TRUE, ptr |-> p]

\* sysconf(_SC_PAGESIZE), a c_long
sysconf_pagesize == {env.page_shift}

\* open_file_raw: `page_size`, `offset_mask`, `page_mask`
open_page_size == CastS(sysconf_pagesize, env.ptr_bits, env.off_bits)

open_offset_mask == Dec(open_page_size, env.off_bits)

open_page_mask == BitXor(CastU(Word(U32Bits), env.off_bits), open_offset_mask)

\* (mutant) the failure test compares with the null pointer
IsMapFailedNull(p) == p = NULL

\* open_file_raw: `ptr == libc::MAP_FAILED`
IsMapFailed(p) == p = MAP_FAILED

\* (mutant) the in-page delta alone is stored, without the mapping's base
AdjustedPtrNoBase(p, offset) ==
  BitAnd(CastS(offset, env.off_bits, env.ptr_bits),
         CastS(open_offset_mask, env.off_bits, env.ptr_bits))

\* open_file_raw: the pointer stored in Self for mmap result p
AdjustedPtr(p, offset) ==
  WrappingAdd(p,
              BitAnd(CastS(offset, env.off_bits, env.ptr_bits),
                     CastS(open_offset_mask, env.off_bits, env.ptr_bits)),
              env.ptr_bits)

\* open_file_raw(offset, fd, prot, flags), where the OS answers mmap with r:
\* the system calls it issues and the value it returns
open_file_raw(offset, fd, prot, flags, r) ==
  IF ~env.unix THEN [calls |-> << >>, result |-> None]
  ELSE LET call == [op |-> "mmap", len |-> env.size, prot |-> prot, flags |-> flags,
                    fd |-> fd, off |-> BitAnd(offset, open_page_mask), ret |-> r]
       IN  IF IsMapFailed(r)
           THEN [calls |-> << call >>, result |-> None]
           ELSE [calls |-> << call >>, result |-> Some(AdjustedPtr(r, offset))]

\* anonymous()
anonymous(r) ==
  IF ~env.unix THEN [calls |-> << >>, result |-> None]
  ELSE open_file_raw({}, -1, RW, {"MAP_ANON", "MAP_SHARED"}, r)

\* (mutant) a failed mapping returns before the descriptor is closed
dev_mem_opened_leak(offset, fd, r) ==
  LET result == open_file_raw(offset, fd, RW, {"MAP_SHARED"}, r)
  IN  IF result.result.some
      THEN [calls  |-> result.calls \o << [op |-> "close", fd |-> fd] >>,
            result |-> result.result]
      ELSE [calls |-> result.calls, result |-> result.result]

\* dev_mem: what follows a successful open, fd being the descriptor
dev_mem_opened(offset, fd, r) ==
  LET result == open_file_raw(offset, fd, RW, {"MAP_SHARED"}, r)
  IN  [calls  |-> result.calls \o << [op |-> "close", fd |-> fd] >>,
       result |-> result.result]

\* dev_mem(offset), where the OS answers open with fd and mmap with r
dev_mem(offset, fd, r) ==
  IF ~env.unix THEN [calls |-> << >>, result |-> None]
  ELSE LET opened == [op |-> "open", path |-> "/dev/mem", ret |-> fd]
       IN  IF fd = -1
           THEN [calls |-> << opened >>, result |-> None]
           ELSE LET rest == dev_mem_opened(offset, fd, r)
                IN  [calls |-> << opened >> \o rest.calls, result |-> rest.result]

\* The state after a constructor call that issued out.calls and returned
\* out.result; c is what the new storage holds.
Constructed(name, offset, out, c) ==
  /\ st = "start"
  /\ st' = IF out.result.some THEN "live" ELSE "none"
  /\ self_ptr' = out.result.ptr
  /\ calls' = calls \o out.calls
  /\ maps' = OsMaps(maps, out.calls)
  /\ fds' = OsFds(fds, out.calls)
  /\ ctor' = [name |-> name, offset |-> offset]
  /\ cell' = IF out.result.some THEN c ELSE cell
  /\ UNCHANGED << env, loc, view, ret, last_written, reads_since, rw >>

\* (fd, flags) a caller may pass: no descriptor and no MAP_ANON (invalid), an
\* anonymous mapping, a file the caller has opened
RawArgs ==
  { [fd |-> -1, flags |-> {"MAP_SHARED"}],
    [fd |-> -1, flags |-> {"MAP_ANON", "MAP_SHARED"}],
    [fd |-> 5, flags |-> {"MAP_SHARED"}] }

OpenFileRaw ==
  \E offset \in Offsets, a \in RawArgs :
    \E r \in MmapReturns(a.fd, a.flags), c \in Vals :
      /\ "MAP_ANON" \in a.flags => c = 0
      /\ Constructed("open_file_raw", offset,
                     open_file_raw(offset, a.fd, RW, a.flags, r), c)

Anonymous ==
  \E r \in MmapReturns(-1, {"MAP_ANON", "MAP_SHARED"}) :
    Constructed("anonymous", {}, anonymous(r), 0)

DevMem ==
  \E offset \in Offsets, fd \in OpenReturns :
    \E r \in MmapReturns(fd, {"MAP_SHARED"}), c \in Vals :
      /\ fd = -1 => (r = MAP_FAILED /\ c = 0)
      /\ Constructed("dev_mem", offset, dev_mem(offset, fd, r), c)

----------------------------------------------------------------------------
(* Volatile accesses                                                       *)

\* every byte of [self_ptr, self_ptr + size_of::<T>()) is mapped
InWindow == PagesOf(self_ptr, env.size) \subseteq maps

\* the owner may call a method: the MemoryMap is alive, no RawPtr borrows it
\* and no read_and_write of it is in progress
Usable == st = "live" /\ ~view.live /\ rw.pc # "read"

\* An access that leaves the mapped window is undefined: the neighbouring
\* page may be accessible, or the process is killed by a signal and the OS
\* takes back all it held.
Fault ==
  /\ ~InWindow
  /\ st' = "fault"
  /\ maps' = {}
  /\ fds' = {}
  /\ UNCHANGED << env, self_ptr, loc, view, calls, ctor, cell, ret, last_written,
                  reads_since, rw >>

\* ptr::read_volatile(self.ptr)
read_volatile(c) == c

\* (mutant) a plain store the compiler is free to drop
write_elided(c, val) == c

\* ptr::write_volatile(self.ptr, val): the new content of the storage
write_volatile(c, val) == val

\* read()
Read ==
  /\ Usable
  /\ \/ /\ ret' = read_volatile(cell)
        /\ reads_since' = IF last_written = NoVal THEN 0
                          ELSE IF reads_since < 2 THEN reads_since + 1 ELSE 2
        /\ rw' = IdleRW
        /\ UNCHANGED << env, st, self_ptr, loc, view, maps, fds, calls, ctor, cell,
                        last_written >>
     \/ Fault

\* write(val)
Write ==
  /\ Usable
  /\ \/ \E val \in Vals :
          /\ cell' = write_volatile(cell, val)
          /\ last_written' = val
          /\ reads_since' = 0
          /\ ret' = NoVal
          /\ rw' = IdleRW
          /\ UNCHANGED << env, st, self_ptr, loc, view, maps, fds, calls, ctor >>
     \/ Fault

\* (mutant) the callback is applied to what the storage holds at the write
rw_new_reread(cb, tmp, cur) == Apply(cb, cur)

\* read_and_write: the value handed to write(), tmp being what read() gave
\* and cur what the storage holds when write() runs
rw_new(cb, tmp, cur) == Apply(cb, tmp)

\* read_and_write(cb), up to the return of cb(self.read())
ReadAndWriteRead ==
  /\ Usable
  /\ \/ \E cb \in Callbacks :
          /\ rw' = [pc |-> "read", cb |-> cb, tmp |-> read_volatile(cell),
                    foreign |-> NoVal, reads |-> 1, writes |-> 0]
          /\ ret' = read_volatile(cell)
          /\ reads_since' = IF last_written = NoVal THEN 0
                            ELSE IF reads_since < 2 THEN reads_since + 1 ELSE 2
          /\ UNCHANGED << env, st, self_ptr, loc, view, maps, fds, calls, ctor, cell,
                          last_written >>
     \/ Fault

\* read_and_write(cb), self.write(new)
ReadAndWriteWrite ==
  /\ st = "live"
  /\ rw.pc = "read"
  /\ LET new == rw_new(rw.cb, rw.tmp, cell)
     IN  /\ cell' = write_volatile(cell, new)
         /\ last_written' = new
         /\ reads_since' = 0
         /\ ret' = NoVal
         /\ rw' = [rw EXCEPT !.pc = "done", !.writes = rw.writes + 1]
         /\ UNCHANGED << env, st, self_ptr, loc, view, maps, fds, calls, ctor >>

\* A store to the same storage by another thread, another process or the
\* device behind the mapping.
ForeignStore ==
  /\ st = "live"
  /\ \E val \in Vals :
       /\ cell' = val
       /\ last_written' = NoVal
       /\ reads_since' = 0
       /\ ret' = NoVal
       /\ rw' = IF rw.pc = "read" THEN [rw EXCEPT !.foreign = val] ELSE IdleRW
       /\ UNCHANGED << env, st, self_ptr, loc, view, maps, fds, calls, ctor >>

----------------------------------------------------------------------------
(* RawPtr, moves and Drop                                                  *)

\* as_ref()
AsRef ==
  /\ Usable
  /\ view' = [live |-> TRUE, ptr |-> self_ptr]
  /\ rw' = IdleRW
  /\ UNCHANGED << env, st, self_ptr, loc, maps, fds, calls, ctor, cell, ret,
                  last_written, reads_since >>

\* the RawPtr goes out of scope; RawPtr has no Drop impl
DiscardRawPtr ==
  /\ view.live
  /\ view' = NoView
  /\ UNCHANGED << env, st, self_ptr, loc, maps, fds, calls, ctor, cell, ret,
                  last_written, reads_since, rw >>

\* the MemoryMap is moved to another binding: a copy of its one field, with
\* no Drop of the place moved from
Move ==
  /\ Usable
  /\ loc' = 1 - loc
  /\ rw' = IdleRW
  /\ UNCHANGED << env, st, self_ptr, view, maps, fds, calls, ctor, cell, ret,
                  last_written, reads_since >>

\* (mutant) the null guard is missing
is_null_never(p) == FALSE

\* drop: `self.ptr.is_null()`
is_null(p) == p = NULL

\* drop: `page_size`, `offset_mask`, `page_mask`, `base_addr`
drop_page_size == CastS(sysconf_pagesize, env.ptr_bits, U32Bits)

drop_offset_mask == Dec(drop_page_size, U32Bits)

drop_page_mask == BitXor(Word(U32Bits), drop_offset_mask)

base_addr(p) == BitAnd(p, CastU(drop_page_mask, env.ptr_bits))

\* the system calls <MemoryMap as Drop>::drop issues for a MemoryMap at p
drop(p) ==
  IF is_null(p) \/ ~env.unix THEN << >>
  ELSE << [op |-> "munmap", addr |-> base_addr(p), len |-> env.size] >>

\* the MemoryMap goes out of scope
Drop ==
  /\ Usable
  /\ st' = "dropped"
  /\ calls' = calls \o drop(self_ptr)
  /\ maps' = OsMaps(maps, drop(self_ptr))
  /\ fds' = OsFds(fds, drop(self_ptr))
  /\ rw' = IdleRW
  /\ UNCHANGED << env, self_ptr, loc, view, ctor, cell, ret, last_written, reads_since >>

----------------------------------------------------------------------------
(* Specifications                                                          *)

Init ==
  /\ env \in Envs
  /\ st = "start"
  /\ self_ptr = NULL
  /\ loc = 0
  /\ view = NoView
  /\ maps = {}
  /\ fds = {}
  /\ calls = << >>
  /\ ctor = [name |-> "none", offset |-> {}]
  /\ cell = 0
  /\ ret = NoVal
  /\ last_written = NoVal
  /\ reads_since = 0
  /\ rw = IdleRW

Next ==
  \/ OpenFileRaw
  \/ Anonymous
  \/ DevMem
  \/ Read
  \/ Write
  \/ ReadAndWriteRead
  \/ ReadAndWriteWrite
  \/ ForeignStore
  \/ AsRef
  \/ DiscardRawPtr
  \/ Move
  \/ Drop

Spec == Init /\ [][Next]_vars

\* Drop as a function of the MemoryMap it is given: the MemoryMap is any
\* value of the type, the null pointer included (MemoryMap is
\* repr(transparent) over *mut T), and a non-null one owns the page it
\* points into.
DropInputs ==
  {NULL} \cup UNION { {b, WrappingAdd(b, {3}, env.ptr_bits)} : b \in Bases }

InitDrop ==
  /\ env \in Envs
  /\ st = "live"
  /\ self_ptr \in DropInputs
  /\ loc = 0
  /\ view = NoView
  /\ maps = IF self_ptr = NULL THEN {} ELSE {AlignDown(self_ptr, env.page_shift)}
  /\ fds = {}
  /\ calls = << >>
  /\ ctor = [name |-> "none", offset |-> {}]
  /\ cell = 0
  /\ ret = NoVal
  /\ last_written = NoVal
  /\ reads_since = 0
  /\ rw = IdleRW

NextDrop ==
  \/ AsRef
  \/ DiscardRawPtr
  \/ Move
  \/ Drop

SpecDrop == InitDrop /\ [][NextDrop]_vars

----------------------------------------------------------------------------
(* Properties                                                              *)

\* the system calls of one kind issued so far, in order
CallsOf(op) == SelectSeq(calls, LAMBDA c : c.op = op)

\* the address mmap returned at construction
MmapBase == CallsOf("mmap")[1].ret

\* offset mod page size, as a pointer-sized word
InPageDelta(offset) == CastS(offset, env.off_bits, env.ptr_bits) \cap Word(env.page_shift)

\* C1: once write(v) has run and no other store has followed it, every read()
\* that returns (the first and the second alike) returns v.
C1_WriteThenRead ==
  (last_written # NoVal /\ reads_since >= 1) => ret = last_written

C1_Witness ==
  /\ st = "live"
  /\ last_written # NoVal
  /\ reads_since = 2
  /\ ret = last_written
  /\ rw.pc = "idle"

\* C2: the mapping made at construction stays mapped while the MemoryMap
\* lives, no munmap is issued before the drop (as_ref and the RawPtr issue
\* none), and the drop issues exactly one munmap, for that mapping, which
\* releases it.
C2_ReleasedExactlyOnce ==
  /\ st = "live" =>
       /\ PagesOf(MmapBase, env.size) \subseteq maps
       /\ CallsOf("munmap") = << >>
  /\ st = "dropped" =>
       /\ Len(CallsOf("munmap")) = 1
       /\ CallsOf("munmap")[1].addr = MmapBase
       /\ maps = {}

\* C3: mmap is passed the offset rounded down to a multiple of the page
\* size, and the stored address is the mmap base plus offset mod page size.
C3_AlignedOffset ==
  CallsOf("mmap") # << >> =>
    /\ CallsOf("mmap")[1].off = AlignDown(ctor.offset, env.page_shift)
    /\ st = "live" =>
         self_ptr = WrappingAdd(MmapBase, InPageDelta(ctor.offset), env.ptr_bits)

\* C4: drop calls munmap with the base address mmap returned at construction
\* and with length size_of::<T>().
C4_UnmapsTheBase ==
  \A i \in DOMAIN calls :
    calls[i].op = "munmap" => (calls[i].addr = MmapBase /\ calls[i].len = env.size)

\* C5: when mmap returns MAP_FAILED the constructor returns None, no
\* MemoryMap exists and no munmap is ever issued.
C5_MapFailedIsNone ==
  (CallsOf("mmap") # << >> /\ CallsOf("mmap")[1].ret = MAP_FAILED) =>
    /\ st = "none"
    /\ self_ptr = NULL
    /\ maps = {}
    /\ CallsOf("munmap") = << >>
    /\ Len(CallsOf("mmap")) = 1

C5_Witness ==
  /\ ctor.name = "dev_mem"
  /\ Len(calls) = 3
  /\ calls[2].op = "mmap"
  /\ calls[2].ret = MAP_FAILED
  /\ st = "none"

\* C6: dev_mem returns None after a failed open with no other call made;
\* after a successful open it makes one mapping attempt with the descriptor,
\* then closes the descriptor once, whatever the attempt gave, and returns
\* what the attempt gave; no descriptor stays open.
C6_DevMemClosesDescriptor ==
  (ctor.name = "dev_mem" /\ env.unix) =>
    /\ Len(calls) >= 1
    /\ calls[1].op = "open"
    /\ Len(CallsOf("open")) = 1
    /\ calls[1].ret = -1 => (calls = << calls[1] >> /\ st = "none" /\ fds = {})
    /\ calls[1].ret # -1 =>
         /\ Len(calls) >= 3
         /\ calls[2].op = "mmap"
         /\ calls[2].fd = calls[1].ret
         /\ calls[2].flags = {"MAP_SHARED"}
         /\ calls[2].prot = RW
         /\ calls[3].op = "close"
         /\ calls[3].fd = calls[1].ret
         /\ Len(CallsOf("mmap")) = 1
         /\ Len(CallsOf("close")) = 1
         /\ fds = {}
         /\ LET attempt == open_file_raw(ctor.offset, calls[1].ret, RW, {"MAP_SHARED"},
                                         calls[2].ret).result
            IN  /\ (st = "none") <=> ~attempt.some
                /\ self_ptr = attempt.ptr

C6_Witness ==
  /\ ctor.name = "dev_mem"
  /\ st = "live"
  /\ calls[1].ret = 3
  /\ Len(calls) = 3
  /\ calls[3].op = "close"
  /\ fds = {}

\* C7: the drop of a MemoryMap whose pointer is null issues no system call
\* and changes nothing.
C7_NullDropIsNoOp ==
  [][ (st = "live" /\ self_ptr = NULL /\ st' = "dropped")
        => UNCHANGED << self_ptr, maps, fds, calls, cell >> ]_vars

C7_Witness ==
  /\ st = "dropped"
  /\ self_ptr = NULL
  /\ env.unix
  /\ calls = << >>

C9_ReadThenWrite ==
  /\ rw.pc = "read" => (rw.reads = 1 /\ rw.writes = 0)
  /\ rw.pc = "done" =>
       /\ rw.reads = 1
       /\ rw.writes = 1
       /\ cell = Apply(rw.cb, rw.tmp)

C9_Witness ==
  /\ rw.pc = "done"
  /\ rw.foreign # NoVal
  /\ rw.foreign # rw.tmp
  /\ cell # rw.foreign
  /\ cell # Apply(rw.cb, rw.foreign)

\* C10: every byte read() and write() touch lies in the window the OS mapped
\* for the request.
C10_AccessInWindow ==
  st = "live" => PagesOf(self_ptr, env.size) \subseteq PagesOf(MmapBase, env.size)

====
